---- MODULE Spec2Model ----
(***************************************************************************)
(* forge_codegen.basic_serialized_datatypes and forge_codegen.models.      *)
(*                                                                         *)
(* Register allocation: RegisterMapper.map and its three packing           *)
(* strategies, over the type catalog TYPE_REGISTRY.  A field is a record   *)
(* [name, datatype]; names are drawn from the naturals, ordered as Python  *)
(* orders the strings they stand for.  A mapping is a record [name,        *)
(* datatype, cr_number, bit_slice] with bit_slice = <<msb, lsb>>.          *)
(*                                                                         *)
(* Conversions: the TypeConverter voltage functions (SpecVoltage) and the  *)
(* time functions with the PulseDuration_* classes (SpecTime).             *)
(*                                                                         *)
(* Models: BasicAppsRegPackage with its mapping cache and its export to    *)
(* control registers (SpecPackage; SpecPackageEdit adds edits of the       *)
(* package between calls), and BADRegisterMapper.to_app_registers with     *)
(* the validators of the legacy AppRegister (SpecBAD).  A control register *)
(* word is the set of the positions of its 1 bits.                         *)
(***************************************************************************)
EXTENDS Integers, Sequences, FiniteSets, TLC

VARIABLES items, strategy, pc, result, report, conv, tconv, pkg, bad

\* the register mapper's state: its arguments, its position and what it returned
mapperVars == <<items, strategy, pc, result, report>>

vars == <<items, strategy, pc, result, report, conv, tconv, pkg, bad>>

\* what a call of a TypeConverter function left: nothing yet, a value, or the
\* ValueError it raised (error says which check raised it)
NoValue == [status |-> "none", value |-> 0, error |-> "none"]

Value(v) == [status |-> "ok", value |-> v, error |-> "none"]

ValueError(kind, v) == [status |-> "error", value |-> v, error |-> kind]

\* no voltage conversion in progress
ConvIdle ==
    [type |-> "none", pc |-> "idle", millivolts |-> NoValue,
     raw |-> NoValue, back |-> NoValue]

\* what a time conversion left: nothing yet, an int, or the ValueError raised
TimeNone == [status |-> "none", value |-> << >>, error |-> "none"]

TimeValue(v) == [status |-> "ok", value |-> v, error |-> "none"]

TimeError(kind) == [status |-> "error", value |-> << >>, error |-> kind]

\* no BasicAppsRegPackage constructed
PkgIdle == [pc |-> "idle"]

\* no BADRegisterMapper constructed
BadIdle == [pc |-> "idle"]

\* no time conversion in progress
TimeIdle ==
    [pc |-> "idle", fn |-> "none", value |-> << >>, unit |-> "none", width |-> 0,
     clock_period_ns |-> 1, rounding |-> "none", cycles |-> TimeNone,
     back |-> TimeNone]

(***************************************************************************)
(* Type catalog                                                            *)
(***************************************************************************)

TypeMetadata(tn, bw, dir, sign, u) ==
    [type_name |-> tn, bit_width |-> bw, direction |-> dir,
     signedness |-> sign, unit |-> u]

BasicAppDataTypes ==
    { "voltage_output_05v_s8", "voltage_output_05v_s16",
      "voltage_output_05v_u7", "voltage_output_05v_u15",
      "voltage_input_20v_s8", "voltage_input_20v_s16",
      "voltage_input_20v_u7", "voltage_input_20v_u15",
      "voltage_input_25v_s8", "voltage_input_25v_s16",
      "voltage_input_25v_u7", "voltage_input_25v_u15",
      "pulse_duration_ns_u8", "pulse_duration_ns_u16", "pulse_duration_ns_u32",
      "pulse_duration_us_u8", "pulse_duration_us_u16", "pulse_duration_us_u24",
      "pulse_duration_ms_u8", "pulse_duration_ms_u16",
      "pulse_duration_s_u8", "pulse_duration_s_u16",
      "boolean" }

\* VOLTAGE OUTPUT TYPES (+-5V, all platforms)
VoltageOutputTypes ==
    ( "voltage_output_05v_s8"   :> TypeMetadata("voltage_output_05v_s8",   8, "output", "signed",   "mV") ) @@
    ( "voltage_output_05v_s16"  :> TypeMetadata("voltage_output_05v_s16", 16, "output", "signed",   "mV") ) @@
    ( "voltage_output_05v_u7"   :> TypeMetadata("voltage_output_05v_u7",   7, "output", "unsigned", "mV") ) @@
    ( "voltage_output_05v_u15"  :> TypeMetadata("voltage_output_05v_u15", 15, "output", "unsigned", "mV") )

\* VOLTAGE INPUT TYPES (+-20V, Moku:Delta)
VoltageInput20VTypes ==
    ( "voltage_input_20v_s8"    :> TypeMetadata("voltage_input_20v_s8",    8, "input",  "signed",   "mV") ) @@
    ( "voltage_input_20v_s16"   :> TypeMetadata("voltage_input_20v_s16",  16, "input",  "signed",   "mV") ) @@
    ( "voltage_input_20v_u7"    :> TypeMetadata("voltage_input_20v_u7",    7, "input",  "unsigned", "mV") ) @@
    ( "voltage_input_20v_u15"   :> TypeMetadata("voltage_input_20v_u15",  15, "input",  "unsigned", "mV") )

\* VOLTAGE INPUT TYPES (+-25V, Go/Lab/Pro)
VoltageInput25VTypes ==
    ( "voltage_input_25v_s8"    :> TypeMetadata("voltage_input_25v_s8",    8, "input",  "signed",   "mV") ) @@
    ( "voltage_input_25v_s16"   :> TypeMetadata("voltage_input_25v_s16",  16, "input",  "signed",   "mV") ) @@
    ( "voltage_input_25v_u7"    :> TypeMetadata("voltage_input_25v_u7",    7, "input",  "unsigned", "mV") ) @@
    ( "voltage_input_25v_u15"   :> TypeMetadata("voltage_input_25v_u15",  15, "input",  "unsigned", "mV") )

\* TIME TYPES (nanoseconds)
TimeTypesNs ==
    ( "pulse_duration_ns_u8"    :> TypeMetadata("pulse_duration_ns_u8",    8, "None",   "unsigned", "ns") ) @@
    ( "pulse_duration_ns_u16"   :> TypeMetadata("pulse_duration_ns_u16",  16, "None",   "unsigned", "ns") ) @@
    ( "pulse_duration_ns_u32"   :> TypeMetadata("pulse_duration_ns_u32",  32, "None",   "unsigned", "ns") )

\* TIME TYPES (microseconds)
TimeTypesUs ==
    ( "pulse_duration_us_u8"    :> TypeMetadata("pulse_duration_us_u8",    8, "None",   "unsigned", "us") ) @@
    ( "pulse_duration_us_u16"   :> TypeMetadata("pulse_duration_us_u16",  16, "None",   "unsigned", "us") ) @@
    ( "pulse_duration_us_u24"   :> TypeMetadata("pulse_duration_us_u24",  24, "None",   "unsigned", "us") )

\* TIME TYPES (milliseconds)
TimeTypesMs ==
    ( "pulse_duration_ms_u8"    :> TypeMetadata("pulse_duration_ms_u8",    8, "None",   "unsigned", "ms") ) @@
    ( "pulse_duration_ms_u16"   :> TypeMetadata("pulse_duration_ms_u16",  16, "None",   "unsigned", "ms") )

\* the pulse_duration_s_u16 entry built with the type_name of the entry above it
TimeTypesS_copied ==
    ( "pulse_duration_s_u8"     :> TypeMetadata("pulse_duration_s_u8",     8, "None",   "unsigned", "s") ) @@
    ( "pulse_duration_s_u16"    :> TypeMetadata("pulse_duration_s_u8",    16, "None",   "unsigned", "s") )

\* TIME TYPES (seconds)
TimeTypesS ==
    ( "pulse_duration_s_u8"     :> TypeMetadata("pulse_duration_s_u8",     8, "None",   "unsigned", "s") ) @@
    ( "pulse_duration_s_u16"    :> TypeMetadata("pulse_duration_s_u16",   16, "None",   "unsigned", "s") )

\* BOOLEAN TYPE
BooleanType ==
    ( "boolean"                 :> TypeMetadata("boolean",                 1, "None",   "None",     "None") )

TYPE_REGISTRY ==
    VoltageOutputTypes @@ VoltageInput20VTypes @@ VoltageInput25VTypes @@
    TimeTypesNs @@ TimeTypesUs @@ TimeTypesMs @@ TimeTypesS @@ BooleanType

(***************************************************************************)
(* RegisterMapper: class constants                                         *)
(***************************************************************************)

MAX_APP_REGISTERS == 12

BITS_PER_REGISTER == 32

TOTAL_BITS == MAX_APP_REGISTERS * BITS_PER_REGISTER

FIRST_CR == 6

LAST_CR == 17

(***************************************************************************)
(* Outcome of a call: the returned list, or the ValueError raised.         *)
(*   error:    which raise statement fired                                 *)
(*   names:    the names the message lists                                 *)
(*   overflow: the number of bits the message reports                      *)
(***************************************************************************)

Returned(mappings) ==
    [status |-> "ok", error |-> "none", mappings |-> mappings,
     names |-> {}, overflow |-> 0]

Raised(error, names, overflow) ==
    [status |-> "error", error |-> error, mappings |-> <<>>,
     names |-> names, overflow |-> overflow]

NotCalled ==
    [status |-> "pending", error |-> "none", mappings |-> <<>>,
     names |-> {}, overflow |-> 0]

RegisterMapping(name, datatype, cr_number, msb, lsb) ==
    [name |-> name, datatype |-> datatype, cr_number |-> cr_number,
     bit_slice |-> <<msb, lsb>>]

\* RegisterMapping.bit_width
bit_width(m) == m.bit_slice[1] - m.bit_slice[2] + 1

(***************************************************************************)
(* _first_fit                                                              *)
(***************************************************************************)

\* "if current_bit + 1 < bit_width": the field does not fit below the cursor
NeedsNextRegister_offByOne(current_bit, width) == current_bit < width

NeedsNextRegister(current_bit, width) == current_bit + 1 < width

\* "lsb = current_bit - bit_width + 1"
LsbOf_offByOne(current_bit, width) == current_bit - width

LsbOf(current_bit, width) == current_bit - width + 1

\* "current_bit = lsb - 1"
NextBit_overlap(lsb) == lsb

NextBit(lsb) == lsb - 1

\* "if current_cr > self.LAST_CR"
RegistersExhausted_never(current_cr) == FALSE

RegistersExhausted(current_cr) == current_cr > LAST_CR

\* "raise ValueError('Ran out of registers ...')"
RanOut_partial(mappings) == Returned(mappings)

RanOut(mappings) == Raised("ran_out_of_registers", {}, 0)

\* a field that does not fit goes back to the register before the cursor's
NextRegister_back(current_cr) ==
    IF current_cr > FIRST_CR THEN current_cr - 1 ELSE current_cr + 1

\* "current_cr += 1"
NextRegister(current_cr) == current_cr + 1

RECURSIVE FirstFitLoop(_, _, _, _, _)
FirstFitLoop(its, i, current_cr, current_bit, mappings) ==
    IF i > Len(its) THEN Returned(mappings)
    ELSE
        LET name  == its[i].name
            dtype == its[i].datatype
            width == TYPE_REGISTRY[dtype].bit_width
            move  == NeedsNextRegister(current_bit, width)
            cr    == IF move THEN NextRegister(current_cr) ELSE current_cr
            bit   == IF move THEN BITS_PER_REGISTER - 1 ELSE current_bit
        IN  IF move /\ RegistersExhausted(cr) THEN RanOut(mappings)
            ELSE
                LET msb == bit
                    lsb == LsbOf(bit, width)
                IN  FirstFitLoop(its, i + 1, cr, NextBit(lsb),
                        Append(mappings, RegisterMapping(name, dtype, cr, msb, lsb)))

first_fit(its) == FirstFitLoop(its, 1, FIRST_CR, BITS_PER_REGISTER - 1, <<>>)

(***************************************************************************)
(* sorted(items, key=...): Python's sort is stable and compares the key    *)
(* tuples lexicographically.                                               *)
(***************************************************************************)

RECURSIVE KeyLess(_, _)
KeyLess(a, b) ==
    IF a = <<>> \/ b = <<>> THEN a = <<>> /\ b # <<>>
    ELSE IF Head(a) # Head(b) THEN Head(a) < Head(b)
    ELSE KeyLess(Tail(a), Tail(b))

RECURSIVE InsertByKey(_, _)
InsertByKey(x, s) ==
    IF s = <<>> THEN <<x>>
    ELSE IF KeyLess(x.key, Head(s).key) THEN <<x>> \o s
    ELSE <<Head(s)>> \o InsertByKey(x, Tail(s))

RECURSIVE SortKeyed(_, _, _)
SortKeyed(keyed, i, acc) ==
    IF i > Len(keyed) THEN acc
    ELSE SortKeyed(keyed, i + 1, InsertByKey(keyed[i], acc))

\* keyed is the list of [key, item] pairs; the result is the items in key order
sorted(keyed) ==
    LET s == SortKeyed(keyed, 1, <<>>)
    IN  [i \in 1..Len(s) |-> s[i].item]

(***************************************************************************)
(* _best_fit                                                               *)
(***************************************************************************)

\* "key=lambda x: (-TYPE_REGISTRY[x[1]].bit_width, x[0])"
sort_key_widthOnly(x) == << -TYPE_REGISTRY[x.datatype].bit_width >>

sort_key(x) == << -TYPE_REGISTRY[x.datatype].bit_width, x.name >>

\* "sorted(items, key=...)" and the sort_key of _type_clustering
sorted_by_sort_key(its) ==
    sorted([i \in 1..Len(its) |-> [key |-> sort_key(its[i]), item |-> its[i]]])

best_fit(its) == first_fit(sorted_by_sort_key(its))

(***************************************************************************)
(* _type_clustering                                                        *)
(***************************************************************************)

\* the if/elif chain that picks the bucket of a field
Bucket(dtype) ==
    LET metadata == TYPE_REGISTRY[dtype]
    IN  IF dtype = "boolean" THEN "booleans"
        ELSE IF metadata.direction = "output" THEN "voltage_output"
        ELSE IF metadata.direction = "input" THEN "voltage_input"
        ELSE IF metadata.unit \in {"ns", "us", "ms", "s"} THEN "time_types"
        ELSE "time_types"

\* "booleans.sort(key=lambda x: x[0])"
name_key(x) == << x.name >>

sorted_by_name(its) ==
    sorted([i \in 1..Len(its) |-> [key |-> name_key(its[i]), item |-> its[i]]])

\* the buckets concatenated with the inputs ahead of the outputs
type_clustering_inputFirst(its) ==
    LET InBucket(b)    == SelectSeq(its, LAMBDA x : Bucket(x.datatype) = b)
        voltage_output == sorted_by_sort_key(InBucket("voltage_output"))
        voltage_input  == sorted_by_sort_key(InBucket("voltage_input"))
        time_types     == sorted_by_sort_key(InBucket("time_types"))
        booleans       == sorted_by_name(InBucket("booleans"))
    IN  first_fit(voltage_input \o voltage_output \o time_types \o booleans)

type_clustering(its) ==
    LET InBucket(b)    == SelectSeq(its, LAMBDA x : Bucket(x.datatype) = b)
        voltage_output == sorted_by_sort_key(InBucket("voltage_output"))
        voltage_input  == sorted_by_sort_key(InBucket("voltage_input"))
        time_types     == sorted_by_sort_key(InBucket("time_types"))
        booleans       == sorted_by_name(InBucket("booleans"))
        clustered_items == voltage_output \o voltage_input \o time_types \o booleans
    IN  first_fit(clustered_items)

(***************************************************************************)
(* map                                                                     *)
(***************************************************************************)

Strategies == {"first_fit", "best_fit", "type_clustering"}

NamesOf(its) == [i \in 1..Len(its) |-> its[i].name]

\* "names.count(name)"
Count(names, name) == Cardinality({i \in 1..Len(names) : names[i] = name})

\* "set(duplicates)", duplicates = [name for name in names if names.count(name) > 1]
Duplicates_all(names) == {names[i] : i \in 1..Len(names)}

Duplicates(names) ==
    {names[i] : i \in {j \in 1..Len(names) : Count(names, names[j]) > 1}}

\* "len(names) != len(set(names))"
HasDuplicates(names) ==
    Len(names) # Cardinality({names[i] : i \in 1..Len(names)})

\* "sum(TYPE_REGISTRY[dtype].bit_width for _, dtype in items)"
RECURSIVE SumWidths(_, _)
SumWidths(its, i) ==
    IF i > Len(its) THEN 0
    ELSE TYPE_REGISTRY[its[i].datatype].bit_width + SumWidths(its, i + 1)

total_bits(its) == SumWidths(its, 1)

\* "{total_bits - self.TOTAL_BITS} bits overflow"
OverflowBits_total(total) == total

OverflowBits(total) == total - TOTAL_BITS

\* the fields the ">32 bits" loop rejects
TooWide(its) ==
    {i \in 1..Len(its) : TYPE_REGISTRY[its[i].datatype].bit_width > BITS_PER_REGISTER}

Route(its, strat) ==
    IF strat = "first_fit" THEN first_fit(its)
    ELSE IF strat = "best_fit" THEN best_fit(its)
    ELSE IF strat = "type_clustering" THEN type_clustering(its)
    ELSE Raised("unknown_strategy", {}, 0)

map(its, strat) ==
    IF its = <<>> THEN Returned(<<>>)
    ELSE IF HasDuplicates(NamesOf(its))
         THEN Raised("duplicate_names", Duplicates(NamesOf(its)), 0)
    ELSE IF total_bits(its) > TOTAL_BITS
         THEN Raised("overflow", {}, OverflowBits(total_bits(its)))
    ELSE IF TooWide(its) # {}
         THEN LET first == CHOOSE i \in TooWide(its) : \A j \in TooWide(its) : i <= j
              IN  Raised("exceeds_register_limit", {its[first].name}, 0)
    ELSE Route(its, strat)

(***************************************************************************)
(* MappingReport and generate_report                                       *)
(***************************************************************************)

\* "(self.total_bits_used / self.total_bits_available) * 100", kept as the
\* exact fraction num / den
Percent(used, available) == [num |-> used * 100, den |-> available]

\* one pass of "for mapping in self.mappings" of __post_init__
AddToRegisterMap_overwrite(register_map, mapping) ==
    [cr \in DOMAIN register_map \cup {mapping.cr_number} |->
        IF cr = mapping.cr_number THEN <<mapping>> ELSE register_map[cr]]

AddToRegisterMap(register_map, mapping) ==
    [cr \in DOMAIN register_map \cup {mapping.cr_number} |->
        IF cr = mapping.cr_number
        THEN (IF cr \in DOMAIN register_map THEN register_map[cr] ELSE <<>>)
             \o <<mapping>>
        ELSE register_map[cr]]

RECURSIVE RegisterMapLoop(_, _, _)
RegisterMapLoop(mappings, i, register_map) ==
    IF i > Len(mappings) THEN register_map
    ELSE RegisterMapLoop(mappings, i + 1, AddToRegisterMap(register_map, mappings[i]))

\* the dataclass constructor followed by __post_init__
MappingReport(mappings, total_bits_used, total_bits_available) ==
    [status               |-> "ok",
     mappings             |-> mappings,
     total_bits_used      |-> total_bits_used,
     total_bits_available |-> total_bits_available,
     efficiency_percent   |-> Percent(total_bits_used, total_bits_available),
     register_map         |-> RegisterMapLoop(mappings, 1, <<>>)]

\* "sum(m.bit_width() for m in mappings)"
RECURSIVE SumBitWidths(_, _)
SumBitWidths(mappings, i) ==
    IF i > Len(mappings) THEN 0
    ELSE bit_width(mappings[i]) + SumBitWidths(mappings, i + 1)

generate_report(mappings) ==
    MappingReport(mappings, SumBitWidths(mappings, 1), TOTAL_BITS)

\* the list passed to generate_report, as the call leaves it: the report
\* keeps a reference to it and nothing assigns to it or to its elements
MappingsAfterReport(mappings) == mappings

NoReport ==
    [status               |-> "none",
     mappings             |-> <<>>,
     total_bits_used      |-> 0,
     total_bits_available |-> 0,
     efficiency_percent   |-> Percent(0, 1),
     register_map         |-> <<>>]

(***************************************************************************)
(* Callers: the field lists and strategies map is called with.             *)
(***************************************************************************)

\* longest generated field list
MaxFields == 14

\* longest repeating pattern of datatypes within a generated list
MaxPattern == 2

\* number of distinct names in a list whose names repeat
WrapAt == 3

\* one datatype of every catalog width and every bucket
FieldTypes ==
    { "boolean", "voltage_output_05v_u7", "voltage_input_20v_s8",
      "voltage_input_25v_u15", "voltage_output_05v_s16",
      "pulse_duration_us_u24", "pulse_duration_ns_u32" }

Patterns == UNION { [1..k -> FieldTypes] : k \in 1..MaxPattern }

NameSchemes == {"ascending", "descending", "repeating"}

NameAt(i, n, scheme) ==
    IF scheme = "ascending" THEN i
    ELSE IF scheme = "descending" THEN n + 1 - i
    ELSE ((i - 1) % WrapAt) + 1

MakeItems(pattern, n, scheme) ==
    [i \in 1..n |-> [name     |-> NameAt(i, n, scheme),
                     datatype |-> pattern[((i - 1) % Len(pattern)) + 1]]]

\* test_overflow_detection: 30 fields voltage_0 .. voltage_29 of the S16 type
OverflowExampleCount == 30

OverflowExample ==
    [i \in 1..OverflowExampleCount |->
        [name |-> i, datatype |-> "voltage_output_05v_s16"]]

\* test_ds1140_pd_register_efficiency: the eight DS1140_PD fields in the
\* test's order; a name is its rank in Python's string order
\*   arm_probe 1, arm_timeout 2, cooling_duration 3, firing_duration 4,
\*   force_fire 5, intensity 6, reset_fsm 7, trigger_threshold 8
DS1140Example ==
    << [name |-> 1, datatype |-> "boolean"],
       [name |-> 5, datatype |-> "boolean"],
       [name |-> 7, datatype |-> "boolean"],
       [name |-> 6, datatype |-> "voltage_output_05v_s16"],
       [name |-> 8, datatype |-> "voltage_input_25v_s16"],
       [name |-> 2, datatype |-> "pulse_duration_ms_u16"],
       [name |-> 4, datatype |-> "pulse_duration_ns_u8"],
       [name |-> 3, datatype |-> "pulse_duration_ns_u8"] >>

InputLists ==
    { MakeItems(p, n, s) : p \in Patterns, n \in 0..MaxFields, s \in NameSchemes }
    \cup {OverflowExample, DS1140Example}

StrategyInputs == Strategies \cup {"worst_fit"}

(***************************************************************************)
(* The state machine: one call of RegisterMapper.map per behaviour,        *)
(* followed by generate_report when map returned.                          *)
(***************************************************************************)

Init ==
    /\ items \in InputLists
    /\ strategy \in StrategyInputs
    /\ pc = "call"
    /\ result = NotCalled
    /\ report = NoReport
    /\ conv = ConvIdle
    /\ tconv = TimeIdle
    /\ pkg = PkgIdle
    /\ bad = BadIdle

Map ==
    /\ pc = "call"
    /\ result' = map(items, strategy)
    /\ pc' = "done"
    /\ UNCHANGED <<items, strategy, report, conv, tconv, pkg, bad>>

\* generate_report on the list map returned
GenerateReport ==
    /\ pc = "done"
    /\ result.status = "ok"
    /\ report' = generate_report(result.mappings)
    /\ result' = [result EXCEPT !.mappings = MappingsAfterReport(result.mappings)]
    /\ pc' = "reported"
    /\ UNCHANGED <<items, strategy, conv, tconv, pkg, bad>>

Next == Map \/ GenerateReport

Spec == Init /\ [][Next]_vars

\* the register mapper is not called
MapperIdle ==
    /\ items = << >>
    /\ strategy = "first_fit"
    /\ pc = "idle"
    /\ result = NotCalled
    /\ report = NoReport

(***************************************************************************)
(* Properties                                                              *)
(***************************************************************************)

Done == pc = "done"

Succeeded == pc = "done" /\ result.status = "ok"

Placed == result.mappings

CatalogWidth(dtype) == TYPE_REGISTRY[dtype].bit_width

Msb(m) == m.bit_slice[1]

Lsb(m) == m.bit_slice[2]

RegistersUsed(ms) == {ms[i].cr_number : i \in 1..Len(ms)}

RECURSIVE WidthSumIn(_, _, _)
WidthSumIn(ms, cr, i) ==
    IF i > Len(ms) THEN 0
    ELSE (IF ms[i].cr_number = cr THEN Msb(ms[i]) - Lsb(ms[i]) + 1 ELSE 0)
         + WidthSumIn(ms, cr, i + 1)

UniqueNames(its) ==
    \A i, j \in 1..Len(its) : i # j => its[i].name # its[j].name

\* every field of its occurs exactly once in ms, by name and datatype, and
\* ms holds nothing else
OnePlacementPerField(its, ms) ==
    /\ Len(ms) = Len(its)
    /\ \A i \in 1..Len(its) :
          Cardinality({j \in 1..Len(ms) : /\ ms[j].name = its[i].name
                                          /\ ms[j].datatype = its[i].datatype}) = 1
    /\ \A j \in 1..Len(ms) :
          \E i \in 1..Len(its) : /\ ms[j].name = its[i].name
                                 /\ ms[j].datatype = its[i].datatype

\* the pack-sequential primitive, read off the placements themselves: the
\* cursor before placement i is the previous placement's lsb minus 1
PackedSequentially(ms) ==
    \A i \in 1..Len(ms) :
        LET W      == CatalogWidth(ms[i].datatype)
            cursor == IF i = 1 THEN BITS_PER_REGISTER - 1 ELSE Lsb(ms[i - 1]) - 1
            reg    == IF i = 1 THEN FIRST_CR ELSE ms[i - 1].cr_number
        IN  IF W <= cursor + 1
            THEN /\ ms[i].cr_number = reg
                 /\ ms[i].bit_slice = <<cursor, cursor - W + 1>>
            ELSE /\ ms[i].cr_number = reg + 1
                 /\ ms[i].bit_slice = <<BITS_PER_REGISTER - 1, BITS_PER_REGISTER - W>>

\* C1: in every successful allocation, under every strategy, two distinct
\* placements sharing a register have disjoint bit ranges, and every msb and
\* lsb lies in 0..31.
C1_NoOverlap ==
    Succeeded =>
        /\ \A i, j \in 1..Len(Placed) :
              (i # j /\ Placed[i].cr_number = Placed[j].cr_number)
                  => (Lsb(Placed[i]) > Msb(Placed[j]) \/ Lsb(Placed[j]) > Msb(Placed[i]))
        /\ \A i \in 1..Len(Placed) :
              /\ Msb(Placed[i]) \in 0..(BITS_PER_REGISTER - 1)
              /\ Lsb(Placed[i]) \in 0..(BITS_PER_REGISTER - 1)

\* a successful allocation in which one register holds three placements down
\* to bit 0 and another register is used as well
C1_Witness ==
    /\ Succeeded
    /\ Cardinality(RegistersUsed(Placed)) >= 2
    /\ \E cr \in RegistersUsed(Placed) :
          /\ Cardinality({i \in 1..Len(Placed) : Placed[i].cr_number = cr}) >= 3
          /\ \E i \in 1..Len(Placed) : Placed[i].cr_number = cr /\ Lsb(Placed[i]) = 0

\* C2: in every successful allocation the widths of the placements of each
\* register sum to at most 32, and at most 12 distinct registers are used.
C2_NoOverflow ==
    Succeeded =>
        /\ \A cr \in RegistersUsed(Placed) :
              WidthSumIn(Placed, cr, 1) <= BITS_PER_REGISTER
        /\ Cardinality(RegistersUsed(Placed)) <= MAX_APP_REGISTERS

\* a successful allocation that uses all 12 registers, one of them filled
\* to exactly 32 bits and another left with unused bits
C2_Witness ==
    /\ Succeeded
    /\ Cardinality(RegistersUsed(Placed)) = MAX_APP_REGISTERS
    /\ \E cr \in RegistersUsed(Placed) :
          WidthSumIn(Placed, cr, 1) = BITS_PER_REGISTER
    /\ \E cr \in RegistersUsed(Placed) :
          WidthSumIn(Placed, cr, 1) < BITS_PER_REGISTER

\* the three pre-checks of map: unique names, total width <= 384, every
\* field width <= 32
PassesPreChecks(its) ==
    /\ UniqueNames(its)
    /\ total_bits(its) <= TOTAL_BITS
    /\ \A i \in 1..Len(its) : CatalogWidth(its[i].datatype) <= BITS_PER_REGISTER

\* C3: every field list that passes the three pre-checks is allocated
\* successfully by every strategy (the "ran out of registers" error is
\* unreachable).
C3_PreChecksSuffice ==
    (Done /\ strategy \in Strategies /\ PassesPreChecks(items))
        => result.status = "ok"

\* C4: map never returns a partial allocation: it raises and returns no
\* placement, or returns exactly one placement per input field, with the
\* field's name and datatype.
C4_NoPartialAllocation ==
    Done =>
        \/ result.status = "error" /\ result.mappings = <<>>
        \/ result.status = "ok" /\ OnePlacementPerField(items, result.mappings)

\* a call that fails inside the placement loop, after placements were made
C4_Witness ==
    /\ Done
    /\ result.status = "error"
    /\ result.error = "ran_out_of_registers"
    /\ Len(items) > MAX_APP_REGISTERS

\* C6: every returned placement has a register index in 6..17 and a bit
\* range with lsb <= msb whose width is the catalog width of its datatype.
C6_PlacementWellFormed ==
    Succeeded =>
        \A i \in 1..Len(Placed) :
            /\ Placed[i].cr_number \in FIRST_CR..LAST_CR
            /\ Lsb(Placed[i]) <= Msb(Placed[i])
            /\ Msb(Placed[i]) - Lsb(Placed[i]) + 1 = CatalogWidth(Placed[i].datatype)

\* a successful allocation reaching register 17 that places fields of at
\* least two different widths
C6_Witness ==
    /\ Succeeded
    /\ \E i, j \in 1..Len(Placed) :
          /\ Placed[i].cr_number = LAST_CR
          /\ CatalogWidth(Placed[i].datatype) # CatalogWidth(Placed[j].datatype)

\* the names that occur more than once in a field list
RepeatedNames(its) ==
    {n \in {its[i].name : i \in 1..Len(its)} :
        \E i, j \in 1..Len(its) : i # j /\ its[i].name = n /\ its[j].name = n}

\* C7: a field list with a repeated name fails with the duplicate-name
\* error listing exactly the repeated names, also when the list exceeds 384
\* bits in total.
C7_DuplicateNames ==
    (Done /\ RepeatedNames(items) # {}) =>
        /\ result.status = "error"
        /\ result.error = "duplicate_names"
        /\ result.names = RepeatedNames(items)

\* a list with a repeated name that also exceeds 384 bits
C7_Witness ==
    /\ Done
    /\ RepeatedNames(items) # {}
    /\ total_bits(items) > TOTAL_BITS
    /\ result.error = "duplicate_names"

\* C8: unique names and a total of T > 384 bits fail under every strategy
\* with the overflow error reporting T - 384 (the 30 x 16-bit list reports
\* 96); with T <= 384 that error is never raised.
C8_OverflowAmount ==
    Done =>
        /\ (UniqueNames(items) /\ total_bits(items) > TOTAL_BITS) =>
              /\ result.status = "error"
              /\ result.error = "overflow"
              /\ result.overflow = total_bits(items) - TOTAL_BITS
        /\ (total_bits(items) <= TOTAL_BITS) => result.error # "overflow"
        /\ (items = OverflowExample) => result.overflow = 96

\* the call of test_overflow_detection
C8_Witness ==
    /\ Done
    /\ items = OverflowExample
    /\ strategy = "best_fit"
    /\ result.error = "overflow"

\* C9: under first_fit the i-th placement is the i-th input field, placed
\* by the pack-sequential primitive from register 6, cursor 31.
C9_FirstFit ==
    (Succeeded /\ strategy = "first_fit") =>
        /\ Len(Placed) = Len(items)
        /\ \A i \in 1..Len(Placed) :
              /\ Placed[i].name = items[i].name
              /\ Placed[i].datatype = items[i].datatype
        /\ PackedSequentially(Placed)

\* a first_fit allocation with a field that exactly fills the rest of its
\* register and a later field that moves on, leaving low-order bits unused
C9_Witness ==
    /\ Succeeded
    /\ strategy = "first_fit"
    /\ \E i \in 2..Len(Placed) :
          /\ Placed[i].cr_number = Placed[i - 1].cr_number
          /\ Lsb(Placed[i]) = 0
    /\ \E i \in 2..Len(Placed) :
          /\ Placed[i].cr_number = Placed[i - 1].cr_number + 1
          /\ Lsb(Placed[i - 1]) > 0

\* the fields of the best_fit example: enable (1) sorts before intensity (2)
BestFitExample ==
    << [name |-> 1, datatype |-> "boolean"],
       [name |-> 2, datatype |-> "voltage_output_05v_s16"] >>

\* C10: under best_fit the placements are ordered by descending width, ties
\* by ascending name, and are the pack-sequential placement of the fields in
\* that order; [enable: BOOLEAN, intensity: S16] gives intensity at register 6
\* bits [31:16] and enable at register 6 bit 15.
C10_BestFit ==
    (Succeeded /\ strategy = "best_fit") =>
        /\ OnePlacementPerField(items, Placed)
        /\ \A i, j \in 1..Len(Placed) :
              i < j =>
                  \/ CatalogWidth(Placed[i].datatype) > CatalogWidth(Placed[j].datatype)
                  \/ /\ CatalogWidth(Placed[i].datatype) = CatalogWidth(Placed[j].datatype)
                     /\ Placed[i].name < Placed[j].name
        /\ PackedSequentially(Placed)
        /\ (items = BestFitExample) =>
              Placed = << RegisterMapping(2, "voltage_output_05v_s16", 6, 31, 16),
                          RegisterMapping(1, "boolean", 6, 15, 15) >>

\* a best_fit allocation whose input has a narrower field before a wider one
\* and two equally wide fields in descending name order
C10_Witness ==
    /\ Succeeded
    /\ strategy = "best_fit"
    /\ \E i, j \in 1..Len(items) :
          /\ i < j
          /\ CatalogWidth(items[i].datatype) < CatalogWidth(items[j].datatype)
    /\ \E i, j \in 1..Len(items) :
          /\ i < j
          /\ CatalogWidth(items[i].datatype) = CatalogWidth(items[j].datatype)
          /\ items[i].name > items[j].name

\* the group of a datatype, read off the catalog: 1 output voltage, 2 input
\* voltage, 3 duration, 4 boolean
ClusterRank(dtype) ==
    LET m == TYPE_REGISTRY[dtype]
    IN  IF m.unit = "mV" /\ m.direction = "output" THEN 1
        ELSE IF m.unit = "mV" /\ m.direction = "input" THEN 2
        ELSE IF m.unit \in {"ns", "us", "ms", "s"} THEN 3
        ELSE 4

\* C11: under type_clustering the placements list the output-voltage fields,
\* then the input-voltage fields, then the durations, then the booleans, each
\* group by descending width then ascending name, and are the pack-sequential
\* placement of the fields in that order.
C11_TypeClustering ==
    (Succeeded /\ strategy = "type_clustering") =>
        /\ OnePlacementPerField(items, Placed)
        /\ \A i, j \in 1..Len(Placed) :
              i < j =>
                  LET ri == ClusterRank(Placed[i].datatype)
                      rj == ClusterRank(Placed[j].datatype)
                      wi == CatalogWidth(Placed[i].datatype)
                      wj == CatalogWidth(Placed[j].datatype)
                  IN  \/ ri < rj
                      \/ /\ ri = rj
                         /\ \/ wi > wj
                            \/ wi = wj /\ Placed[i].name < Placed[j].name
        /\ PackedSequentially(Placed)

\* a type_clustering allocation of a list that holds all four groups, with
\* the booleans first in the input
C11_Witness ==
    /\ Succeeded
    /\ strategy = "type_clustering"
    /\ {ClusterRank(items[i].datatype) : i \in 1..Len(items)} = 1..4
    /\ ClusterRank(items[1].datatype) = 4
    /\ ClusterRank(Placed[1].datatype) = 1

\* C12: the DS1140-style list under best_fit uses exactly the registers
\* {6, 7, 8}, and bits used / (32 * registers used) exceeds 60%.
C12_DS1140 ==
    (Done /\ items = DS1140Example /\ strategy = "best_fit") =>
        /\ result.status = "ok"
        /\ RegistersUsed(Placed) = {6, 7, 8}
        /\ total_bits(items) * 100
              > 60 * BITS_PER_REGISTER * Cardinality(RegistersUsed(Placed))

\* the best_fit call of test_ds1140_pd_register_efficiency has returned
C12_Witness ==
    /\ Succeeded
    /\ items = DS1140Example
    /\ strategy = "best_fit"
    /\ Len(Placed) = 8

Reported == pc = "reported"

\* C18: for every allocation map returns, generate_report succeeds, leaves
\* the placement list as map returned it, and reports bits used = sum of the
\* placements' widths, bits available = 384, efficiency = bits used / 384 as
\* a percentage, registers used = number of distinct register indices, and a
\* register map holding every placement exactly once, under its own register.
C18_Report ==
    Reported =>
        /\ report.status = "ok"
        /\ result.mappings = map(items, strategy).mappings
        /\ report.mappings = result.mappings
        /\ report.total_bits_used = total_bits(items)
        /\ report.total_bits_available = 384
        /\ report.efficiency_percent.num * 384
              = report.total_bits_used * 100 * report.efficiency_percent.den
        /\ Cardinality(DOMAIN report.register_map)
              = Cardinality(RegistersUsed(Placed))
        /\ \A i \in 1..Len(Placed) :
              \A cr \in DOMAIN report.register_map :
                  Cardinality({k \in 1..Len(report.register_map[cr]) :
                                  report.register_map[cr][k] = Placed[i]})
                      = (IF cr = Placed[i].cr_number THEN 1 ELSE 0)
        /\ \A cr \in DOMAIN report.register_map :
              \A k \in 1..Len(report.register_map[cr]) :
                  \E i \in 1..Len(Placed) : report.register_map[cr][k] = Placed[i]

\* a report over an allocation that spreads over several registers, one of
\* them holding several placements
C18_Witness ==
    /\ Reported
    /\ Cardinality(DOMAIN report.register_map) >= 3
    /\ \E cr \in DOMAIN report.register_map : Len(report.register_map[cr]) >= 3
    /\ report.total_bits_used > 0

\* C19: every member of the BasicAppDataTypes enum has exactly one
\* TYPE_REGISTRY entry, whose type_name is the member and whose bit width lies
\* in 1..32, so map never rejects a catalog type as wider than a register.
C19_CatalogTotal ==
    /\ DOMAIN TYPE_REGISTRY = BasicAppDataTypes
    /\ \A t \in BasicAppDataTypes :
          /\ TYPE_REGISTRY[t].type_name = t
          /\ TYPE_REGISTRY[t].bit_width \in 1..BITS_PER_REGISTER
    /\ Done => result.error # "exceeds_register_limit"

\* a call of map that got past the width check with a 32-bit field
C19_Witness ==
    /\ Succeeded
    /\ \E i \in 1..Len(items) :
          TYPE_REGISTRY[items[i].datatype].bit_width = BITS_PER_REGISTER

\* C20: the closed set of value types has exactly 25 members, and the type
\* catalog has exactly 25 entries.
\* Every field's datatype is drawn from that set.
C20_TwentyFiveTypes ==
    /\ \A i \in 1..Len(items) : items[i].datatype \in BasicAppDataTypes
    /\ Cardinality(BasicAppDataTypes) = 25
    /\ Cardinality(DOMAIN TYPE_REGISTRY) = 25

\* the bits of register cr that no placement of ms covers
Slack(ms, cr) == BITS_PER_REGISTER - WidthSumIn(ms, cr, 1)

\* C24: slack is never reclaimed: register indices are non-decreasing along
\* the placement order, so no field is placed into a register that precedes
\* the register of a field placed before it.
C24_SlackNotReclaimed ==
    Succeeded =>
        \A i, j \in 1..Len(Placed) :
            i < j => Placed[i].cr_number <= Placed[j].cr_number

\* a field sits in a later register although an earlier register has enough
\* unused low-order bits for it
C24_Witness ==
    /\ Succeeded
    /\ \E j \in 1..Len(Placed) :
       \E cr \in RegistersUsed(Placed) :
          /\ cr < Placed[j].cr_number
          /\ CatalogWidth(Placed[j].datatype) <= Slack(Placed, cr)

\* C25: for every field list that passes the pre-checks, best_fit succeeds
\* whenever first_fit succeeds on the same fields, and uses no more distinct
\* registers than first_fit does.
C25_BestFitNoWorse ==
    (Done /\ strategy = "best_fit" /\ PassesPreChecks(items)
          /\ first_fit(items).status = "ok")
    => /\ result.status = "ok"
       /\ Cardinality(RegistersUsed(Placed))
             <= Cardinality(RegistersUsed(first_fit(items).mappings))

\* the placements of ms in register cr
InRegister(ms, cr) == { i \in 1..Len(ms) : ms[i].cr_number = cr }

\* the lowest bit of register cr that a placement of ms covers
LowestLsb(ms, cr) ==
    CHOOSE b \in { Lsb(ms[i]) : i \in InRegister(ms, cr) } :
        \A i \in InRegister(ms, cr) : b <= Lsb(ms[i])

\* C26: in every used register the placement with the highest msb starts at
\* bit 31 and every further placement has msb equal to another placement's
\* lsb minus 1, so the unused bits form one block at the low-order end.
C26_NoInteriorGaps ==
    Succeeded =>
        /\ \A cr \in RegistersUsed(Placed) :
              /\ \E i \in InRegister(Placed, cr) :
                    Msb(Placed[i]) = BITS_PER_REGISTER - 1
              /\ Slack(Placed, cr) = LowestLsb(Placed, cr)
        /\ \A j \in 1..Len(Placed) :
              Msb(Placed[j]) # BITS_PER_REGISTER - 1 =>
                  \E i \in InRegister(Placed, Placed[j].cr_number) :
                      Lsb(Placed[i]) - 1 = Msb(Placed[j])

\* a register with three placements and unused bits below them
C26_Witness ==
    /\ Succeeded
    /\ \E cr \in RegistersUsed(Placed) :
          /\ Cardinality(InRegister(Placed, cr)) >= 3
          /\ Slack(Placed, cr) > 0

\* its in reverse order
Reverse(its) == [i \in 1..Len(its) |-> its[Len(its) + 1 - i]]

\* its with the fields at positions k and k + 1 exchanged
SwapAt(its, k) ==
    [i \in 1..Len(its) |-> IF i = k THEN its[k + 1]
                           ELSE IF i = k + 1 THEN its[k] ELSE its[i]]

\* other orderings of the same fields
Reorderings(its) ==
    {Reverse(its)} \cup { SwapAt(its, k) : k \in 1..(Len(its) - 1) }

\* C27: best_fit and type_clustering do not depend on the caller's field
\* order: two orderings of the same uniquely named fields get the same
\* placement list.
C27_OrderIndependent ==
    (Done /\ strategy \in {"best_fit", "type_clustering"} /\ UniqueNames(items))
    => \A other \in Reorderings(items) : map(other, strategy) = result

\* best_fit placed fields of equal width that the caller gave in an order
\* other than the placement order
C27_Witness ==
    /\ Succeeded
    /\ strategy = "best_fit"
    /\ \E i, j \in 1..Len(items) :
          /\ i < j
          /\ CatalogWidth(items[i].datatype) = CatalogWidth(items[j].datatype)
          /\ items[i].name > items[j].name

(***************************************************************************)
(* TypeConverter: millivolts <-> raw register value, one pair of functions *)
(* per voltage type                                                        *)
(***************************************************************************)
VoltageTypes == { t \in BasicAppDataTypes : TYPE_REGISTRY[t].unit = "mV" }

ValueDomain(lo, hi) == [min_value |-> lo, max_value |-> hi]

\* min_value and max_value of the catalog's voltage entries
VoltageValueDomains ==
    ( "voltage_output_05v_s8"   :> ValueDomain( -5000,  5000) ) @@
    ( "voltage_output_05v_s16"  :> ValueDomain( -5000,  5000) ) @@
    ( "voltage_output_05v_u7"   :> ValueDomain(     0,  5000) ) @@
    ( "voltage_output_05v_u15"  :> ValueDomain(     0,  5000) ) @@
    ( "voltage_input_20v_s8"    :> ValueDomain(-20000, 20000) ) @@
    ( "voltage_input_20v_s16"   :> ValueDomain(-20000, 20000) ) @@
    ( "voltage_input_20v_u7"    :> ValueDomain(     0, 20000) ) @@
    ( "voltage_input_20v_u15"   :> ValueDomain(     0, 20000) ) @@
    ( "voltage_input_25v_s8"    :> ValueDomain(-25000, 25000) ) @@
    ( "voltage_input_25v_s16"   :> ValueDomain(-25000, 25000) ) @@
    ( "voltage_input_25v_u7"    :> ValueDomain(     0, 25000) ) @@
    ( "voltage_input_25v_u15"   :> ValueDomain(     0, 25000) )

\* the literals of one <type>_to_raw / raw_to_<type> pair: the millivolt range
\* check, the two scale factors, and the raw range (the clamp of to_raw and the
\* range check of raw_to use the same two literals)
VoltageScaling(mv_lo, mv_hi, mv_full, raw_full, raw_lo, raw_hi) ==
    [mv_lo |-> mv_lo, mv_hi |-> mv_hi, mv_full |-> mv_full,
     raw_full |-> raw_full, raw_lo |-> raw_lo, raw_hi |-> raw_hi]

TypeConverter ==
    ( "voltage_output_05v_s8"   :> VoltageScaling( -5000,  5000,  5000,   127,   -128,   127) ) @@
    ( "voltage_output_05v_s16"  :> VoltageScaling( -5000,  5000,  5000, 32767, -32768, 32767) ) @@
    ( "voltage_output_05v_u7"   :> VoltageScaling(     0,  5000,  5000,   127,      0,   127) ) @@
    ( "voltage_output_05v_u15"  :> VoltageScaling(     0,  5000,  5000, 32767,      0, 32767) ) @@
    ( "voltage_input_20v_s8"    :> VoltageScaling(-20000, 20000, 20000,   127,   -128,   127) ) @@
    ( "voltage_input_20v_s16"   :> VoltageScaling(-20000, 20000, 20000, 32767, -32768, 32767) ) @@
    ( "voltage_input_20v_u7"    :> VoltageScaling(     0, 20000, 20000,   127,      0,   127) ) @@
    ( "voltage_input_20v_u15"   :> VoltageScaling(     0, 20000, 20000, 32767,      0, 32767) ) @@
    ( "voltage_input_25v_s8"    :> VoltageScaling(-25000, 25000, 25000,   127,   -128,   127) ) @@
    ( "voltage_input_25v_s16"   :> VoltageScaling(-25000, 25000, 25000, 32767, -32768, 32767) ) @@
    ( "voltage_input_25v_u7"    :> VoltageScaling(     0, 25000, 25000,   127,      0,   127) ) @@
    ( "voltage_input_25v_u15"   :> VoltageScaling(     0, 25000, 25000, 32767,      0, 32767) )

max(a, b) == IF a >= b THEN a ELSE b

min(a, b) == IF a <= b THEN a ELSE b

\* Python's int(num / den) for den > 0: the quotient truncated toward zero.
\* The code divides first and multiplies after, in floating point; on every
\* in-range integer the float product truncates to the same integer as the
\* exact quotient num / den does.
int(num, den) == IF num >= 0 THEN num \div den ELSE -((-num) \div den)

\* a range check that rejects the upper bound itself
InRange_exclusive(lo, x, hi) == lo <= x /\ x < hi

\* not (lo <= x <= hi) raises
InRange(lo, x, hi) == lo <= x /\ x <= hi

\* <type>_to_raw(millivolts)
to_raw(type, millivolts) ==
    LET c == TypeConverter[type] IN
    IF ~InRange(c.mv_lo, millivolts, c.mv_hi)
      THEN ValueError("out_of_range", millivolts)
      ELSE LET raw == int(millivolts * c.raw_full, c.mv_full)
           IN  Value(max(c.raw_lo, min(c.raw_hi, raw)))

\* raw_to_<type>(raw)
raw_to(type, raw) ==
    LET c == TypeConverter[type] IN
    IF ~InRange(c.raw_lo, raw, c.raw_hi)
      THEN ValueError("out_of_range", raw)
      ELSE Value(int(raw * c.mv_full, c.raw_full))

\* Inputs: around zero and around both ends of each type's ranges
MvWindow == 500

RawWindow == 200

Margin == 3

MillivoltInputs(type) ==
    LET R == TypeConverter[type].mv_full IN
    ((-R - Margin)..(-R + MvWindow)) \cup ((-MvWindow)..MvWindow)
        \cup ((R - MvWindow)..(R + Margin))

RawInputs(type) ==
    LET S == TypeConverter[type].raw_full IN
    ((-S - 1 - Margin)..(-S - 1 + RawWindow)) \cup ((-RawWindow)..RawWindow)
        \cup ((S - RawWindow)..(S + Margin))

\* a caller holds millivolts and is about to call <type>_to_raw, or holds a raw
\* value and is about to call raw_to_<type>
InitVoltage ==
    /\ MapperIdle
    /\ tconv = TimeIdle
    /\ pkg = PkgIdle
    /\ bad = BadIdle
    /\ \E type \in VoltageTypes :
          \/ \E mv \in MillivoltInputs(type) :
                conv = [type |-> type, pc |-> "to_raw", millivolts |-> Value(mv),
                        raw |-> NoValue, back |-> NoValue]
          \/ \E raw \in RawInputs(type) :
                conv = [type |-> type, pc |-> "raw_to", millivolts |-> NoValue,
                        raw |-> Value(raw), back |-> NoValue]

\* raw = <type>_to_raw(millivolts); a ValueError ends the caller
ToRaw ==
    /\ conv.pc = "to_raw"
    /\ LET r == to_raw(conv.type, conv.millivolts.value) IN
       conv' = [conv EXCEPT !.raw = r,
                            !.pc = IF r.status = "ok" THEN "raw_to" ELSE "done"]
    /\ UNCHANGED <<mapperVars, tconv, pkg, bad>>

\* back = raw_to_<type>(raw)
RawTo ==
    /\ conv.pc = "raw_to"
    /\ conv' = [conv EXCEPT !.back = raw_to(conv.type, conv.raw.value),
                            !.pc = "done"]
    /\ UNCHANGED <<mapperVars, tconv, pkg, bad>>

NextVoltage == ToRaw \/ RawTo

SpecVoltage == InitVoltage /\ [][NextVoltage]_vars

\* 2^n
RECURSIVE Pow2(_)
Pow2(n) == IF n = 0 THEN 1 ELSE 2 * Pow2(n - 1)

IsSigned(type) == TYPE_REGISTRY[type].signedness = "signed"

\* the N-bit raw range of a voltage type, N its catalog bit width
RawMin(type) ==
    IF IsSigned(type) THEN -Pow2(TYPE_REGISTRY[type].bit_width - 1) ELSE 0

RawMax(type) ==
    IF IsSigned(type) THEN Pow2(TYPE_REGISTRY[type].bit_width - 1) - 1
                      ELSE Pow2(TYPE_REGISTRY[type].bit_width) - 1

\* the number of quantization steps in the range R: 2^(N-1) - 1 or 2^N - 1
Steps(type) == RawMax(type)

\* R, the range in mV
RangeMv(type) == VoltageValueDomains[type].max_value

Abs(x) == IF x >= 0 THEN x ELSE -x

\* num / den (den > 0) rounded to the nearest integer, a tie to the even one
RoundNearest(num, den) ==
    LET q == num \div den
        r == num - q * den
    IN  IF 2 * r < den THEN q
        ELSE IF 2 * r > den THEN q + 1
        ELSE IF q % 2 = 0 THEN q ELSE q + 1

\* a call of <type>_to_raw has returned or raised
ToRawCalled == conv.millivolts.status = "ok" /\ conv.raw.status # "none"

\* a call of raw_to_<type> has returned or raised
RawToCalled == conv.raw.status = "ok" /\ conv.back.status # "none"

\* a round trip millivolts -> raw -> millivolts has completed
RoundTripDone == conv.millivolts.status = "ok" /\ conv.back.status = "ok"

\* C13: for every voltage type and in-domain millivolt value v,
\* raw_to(to_raw(v)) differs from v by at most one quantization step,
\* R / (2^(N-1) - 1) mV (signed) or R / (2^N - 1) mV (unsigned).
C13_RoundTripWithinStep ==
    RoundTripDone =>
        Abs(conv.back.value - conv.millivolts.value) * Steps(conv.type)
            <= RangeMv(conv.type)

\* C14: for every in-domain millivolt value, <type>_to_raw returns
\* clamp(round(mv / R * steps), RawMin, RawMax), rounding to the nearest integer.
C14_RoundsToNearest ==
    (ToRawCalled /\ conv.raw.status = "ok") =>
        conv.raw.value =
            max(RawMin(conv.type),
                min(RawMax(conv.type),
                    RoundNearest(conv.millivolts.value * Steps(conv.type),
                                 RangeMv(conv.type))))

\* C15: <type>_to_raw raises a range error exactly when the millivolts lie
\* outside the catalog domain [min_value, max_value], and otherwise returns a raw
\* value in the type's N-bit raw range; raw_to_<type> raises a range error
\* exactly when the raw value lies outside that N-bit raw range.
C15_RangeErrors ==
    /\ ToRawCalled =>
          /\ conv.raw.status = "error"
                <=> ~(/\ VoltageValueDomains[conv.type].min_value <= conv.millivolts.value
                      /\ conv.millivolts.value <= VoltageValueDomains[conv.type].max_value)
          /\ conv.raw.status = "error" => conv.raw.error = "out_of_range"
          /\ conv.raw.status = "ok" =>
                conv.raw.value \in RawMin(conv.type)..RawMax(conv.type)
    /\ RawToCalled =>
          /\ conv.back.status = "error"
                <=> conv.raw.value \notin RawMin(conv.type)..RawMax(conv.type)
          /\ conv.back.status = "error" => conv.back.error = "out_of_range"

\* <type>_to_raw returned the top raw value for the top of the domain
C15_Witness ==
    /\ ToRawCalled
    /\ conv.millivolts.value = VoltageValueDomains[conv.type].max_value
    /\ conv.raw = Value(RawMax(conv.type))

(***************************************************************************)
(* Python numbers for the time conversions.  A Python int has no width: it *)
(* is kept as its base-2^15 digits, least significant first, no leading    *)
(* zero digit (0 is the empty sequence).  A Python float is an IEEE double:*)
(* [m, e] stands for m * 2^e with m below 2^53, and every operation rounds *)
(* its exact result to the nearest such number, a tie to the even m.       *)
(***************************************************************************)
Base == 32768

BaseBits == 15

MantissaBits == 53

RECURSIVE Norm(_)
Norm(s) ==
    IF s = << >> THEN << >>
    ELSE IF s[Len(s)] = 0 THEN Norm(SubSeq(s, 1, Len(s) - 1))
    ELSE s

RECURSIVE BigOfInt(_)
BigOfInt(n) == IF n = 0 THEN << >> ELSE <<n % Base>> \o BigOfInt(n \div Base)

RECURSIVE MulLoop(_, _, _, _)
MulLoop(s, m, i, carry) ==
    IF i > Len(s) THEN BigOfInt(carry)
    ELSE LET t == s[i] * m + carry
         IN  <<t % Base>> \o MulLoop(s, m, i + 1, t \div Base)

\* s * m for 0 <= m <= Base
MulSmall(s, m) == Norm(MulLoop(s, m, 1, 0))

RECURSIVE DivLoop(_, _, _, _)
DivLoop(s, d, i, rem) ==
    IF i = 0 THEN [q |-> << >>, r |-> rem]
    ELSE LET cur  == rem * Base + s[i]
             rest == DivLoop(s, d, i - 1, cur % d)
         IN  [q |-> rest.q \o <<cur \div d>>, r |-> rest.r]

\* s = q * d + r with 0 <= r < d, for 0 < d <= Base
DivModSmall(s, d) ==
    LET x == DivLoop(s, d, Len(s), 0) IN [q |-> Norm(x.q), r |-> x.r]

\* s times the product of the factors
RECURSIVE MulBy(_, _)
MulBy(s, factors) ==
    IF factors = << >> THEN s
    ELSE MulBy(MulSmall(s, Head(factors)), Tail(factors))

\* s = q * d + r with d the product of the factors (d below 2^30), 0 <= r < d
RECURSIVE DivModBy(_, _)
DivModBy(s, factors) ==
    IF factors = << >> THEN [q |-> s, r |-> 0, d |-> 1]
    ELSE LET first == DivModSmall(s, Head(factors))
             rest  == DivModBy(first.q, Tail(factors))
         IN  [q |-> rest.q,
              r |-> first.r + Head(factors) * rest.r,
              d |-> Head(factors) * rest.d]

RECURSIVE IntBitLen(_)
IntBitLen(n) == IF n = 0 THEN 0 ELSE 1 + IntBitLen(n \div 2)

\* the number of binary digits of s
BitLen(s) ==
    IF s = << >> THEN 0 ELSE BaseBits * (Len(s) - 1) + IntBitLen(s[Len(s)])

\* s * 2^k
Shl(s, k) ==
    IF s = << >> THEN << >>
    ELSE [i \in 1..(k \div BaseBits) |-> 0] \o MulSmall(s, Pow2(k % BaseBits))

\* s \div 2^k
Shr(s, k) ==
    IF k \div BaseBits >= Len(s) THEN << >>
    ELSE DivModSmall(SubSeq(s, (k \div BaseBits) + 1, Len(s)),
                     Pow2(k % BaseBits)).q

IsOdd(s) == s # << >> /\ s[1] % 2 = 1

RECURSIVE AddOne(_)
AddOne(s) ==
    IF s = << >> THEN <<1>>
    ELSE IF s[1] + 1 < Base THEN <<s[1] + 1>> \o Tail(s)
    ELSE <<0>> \o AddOne(Tail(s))

\* s - 1 for s > 0
RECURSIVE SubOne(_)
SubOne(s) ==
    IF s[1] > 0 THEN Norm(<<s[1] - 1>> \o Tail(s))
    ELSE <<Base - 1>> \o SubOne(Tail(s))

\* a < b
RECURSIVE BigLess(_, _)
BigLess(a, b) ==
    IF Len(a) # Len(b) THEN Len(a) < Len(b)
    ELSE IF a = << >> THEN FALSE
    ELSE IF a[Len(a)] # b[Len(b)] THEN a[Len(a)] < b[Len(b)]
    ELSE BigLess(Norm(SubSeq(a, 1, Len(a) - 1)), Norm(SubSeq(b, 1, Len(b) - 1)))

Float(m, e) == [m |-> m, e |-> e]

\* q + r/d rounded to an integer mantissa (0 <= r < d), scaled by 2^e
RoundRemainder(q, r, d, e) ==
    LET up == 2 * r > d \/ (2 * r = d /\ IsOdd(q))
    IN  Float(IF up THEN AddOne(q) ELSE q, e)

\* (q + a fraction, nonzero iff sticky) / 2^k rounded to an integer mantissa,
\* for k >= 1, scaled by 2^k
RoundBits(q, k, sticky) ==
    LET g    == Shr(q, k - 1)
        m    == Shr(q, k)
        rest == sticky \/ Shl(g, k - 1) # q
        up   == IsOdd(g) /\ (rest \/ IsOdd(m))
    IN  Float(IF up THEN AddOne(m) ELSE m, k)

\* the least k >= from at which n * 2^k / d has MantissaBits binary digits
RECURSIVE ScaleShift(_, _, _)
ScaleShift(n, factors, from) ==
    IF BitLen(DivModBy(Shl(n, from), factors).q) >= MantissaBits THEN from
    ELSE ScaleShift(n, factors, from + 1)

\* the double nearest to n / d, n an int and d the product of the factors
RoundRatio(n, factors) ==
    LET x == DivModBy(n, factors)
        L == BitLen(x.q)
    IN  IF n = << >> THEN Float(<< >>, 0)
        ELSE IF L > MantissaBits THEN RoundBits(x.q, L - MantissaBits, x.r > 0)
        ELSE IF L = MantissaBits THEN RoundRemainder(x.q, x.r, x.d, 0)
        ELSE LET k == ScaleShift(n, factors, MantissaBits - L)
                 y == DivModBy(Shl(n, k), factors)
             IN  RoundRemainder(y.q, y.r, y.d, -k)

\* float(n) of an int n
float(n) == RoundRatio(n, << >>)

\* math.floor(x), which for x >= 0 is int(x) as well
floor(x) == IF x.e >= 0 THEN Shl(x.m, x.e) ELSE Shr(x.m, -x.e)

\* x == int(x)
is_integer(x) == x.e >= 0 \/ Shl(Shr(x.m, -x.e), -x.e) = x.m

\* math.ceil(x)
ceil(x) == IF is_integer(x) THEN floor(x) ELSE AddOne(floor(x))

\* x / d of an integer-valued float x and a float d, the product of the factors
truediv(x, factors) == RoundRatio(floor(x), factors)

\* x * c of integer-valued floats
float_mul(x, c) == float(MulSmall(floor(x), c))

(***************************************************************************)
(* TypeConverter.time_to_cycles / cycles_to_time and the PulseDuration_*   *)
(* classes.  clock_period_ns is a float with an integer value.             *)
(***************************************************************************)
TimeUnits == {"ns", "us", "ms", "s"}

\* the unit's nanosecond factor, as a product: 1, 1000, 1_000_000, 1_000_000_000
UnitFactor ==
    ( "ns" :> << >> ) @@ ( "us" :> <<1000>> ) @@ ( "ms" :> <<1000, 1000>> ) @@
    ( "s"  :> <<1000, 1000, 1000>> )

RoundingModes == {"EXACT", "ROUND_UP", "ROUND_DOWN"}

\* the rounding branches shared by time_to_cycles and every to_cycles;
\* duration_ns is an int, the division converts it to a float
cycles_of(duration_ns, clock_period_ns, rounding) ==
    LET exact_cycles == truediv(float(duration_ns), <<clock_period_ns>>) IN
    IF rounding = "EXACT"
      THEN IF ~is_integer(exact_cycles) THEN TimeError("not_evenly_divisible")
           ELSE TimeValue(floor(exact_cycles))
    ELSE IF rounding = "ROUND_UP" THEN TimeValue(ceil(exact_cycles))
    ELSE IF rounding = "ROUND_DOWN" THEN TimeValue(floor(exact_cycles))
    ELSE TimeError("invalid_rounding_mode")

time_to_cycles(value, unit, clock_period_ns, rounding) ==
    IF unit \notin TimeUnits THEN TimeError("invalid_unit")
    ELSE cycles_of(MulBy(value, UnitFactor[unit]), clock_period_ns, rounding)

cycles_to_time(cycles, unit, clock_period_ns) ==
    LET duration_ns == float_mul(float(cycles), clock_period_ns) IN
    IF unit = "ns" THEN TimeValue(floor(duration_ns))
    ELSE IF unit \in TimeUnits
      THEN TimeValue(floor(truediv(duration_ns, UnitFactor[unit])))
    ELSE TimeError("invalid_unit")

\* the widths each PulseDuration_* class is declared for
PulseWidths ==
    ( "ns" :> {8, 16, 32} ) @@ ( "us" :> {8, 16, 24} ) @@ ( "ms" :> {8, 16} ) @@
    ( "s"  :> {8, 16} )

\* PulseDuration_<unit>.__init__(value, width): values are never negative here
PulseDuration(value, width) ==
    LET max_value == SubOne(Shl(<<1>>, width)) IN
    IF BigLess(max_value, value) THEN TimeError("exceeds_max")
    ELSE TimeValue(value)

\* PulseDuration_<unit>.to_cycles(clock_period_ns, rounding)
to_cycles(value, unit, clock_period_ns, rounding) ==
    cycles_of(MulBy(value, UnitFactor[unit]), clock_period_ns, rounding)

\* Inputs
MaxValue == 24

MaxExcess == 2

MaxClock == 8

RECURSIVE AddInt(_, _)
AddInt(s, k) == IF k = 0 THEN s ELSE AddInt(AddOne(s), k - 1)

SmallValues == { BigOfInt(v) : v \in 0..MaxValue }

\* the first ints above 2^53, where a float no longer holds every int
LargeValues == { AddInt(Shl(<<1>>, MantissaBits), k) : k \in 0..MaxExcess }

\* the largest value of a width, and the first one beyond it
EdgeValues(width) == { SubOne(Shl(<<1>>, width)), Shl(<<1>>, width) }

UnitInputs == TimeUnits \cup {"min"}

RoundingInputs == RoundingModes \cup {"NEAREST"}

ClockInputs == 1..MaxClock

InitTime ==
    /\ MapperIdle
    /\ conv = ConvIdle
    /\ pkg = PkgIdle
    /\ bad = BadIdle
    /\ \E clock \in ClockInputs, rounding \in RoundingInputs :
          \/ \E value \in SmallValues \cup LargeValues, unit \in UnitInputs :
                tconv = [pc |-> "time_to_cycles", fn |-> "time_to_cycles",
                         value |-> value, unit |-> unit, width |-> 0,
                         clock_period_ns |-> clock, rounding |-> rounding,
                         cycles |-> TimeNone, back |-> TimeNone]
          \/ \E unit \in TimeUnits :
             \E width \in PulseWidths[unit] :
             \E value \in SmallValues \cup EdgeValues(width) :
                tconv = [pc |-> "new", fn |-> "PulseDuration",
                         value |-> value, unit |-> unit, width |-> width,
                         clock_period_ns |-> clock, rounding |-> rounding,
                         cycles |-> TimeNone, back |-> TimeNone]

\* cycles = time_to_cycles(value, unit, clock_period_ns, rounding)
TimeToCycles ==
    /\ tconv.pc = "time_to_cycles"
    /\ LET r == time_to_cycles(tconv.value, tconv.unit, tconv.clock_period_ns,
                               tconv.rounding) IN
       tconv' = [tconv EXCEPT !.cycles = r,
                    !.pc = IF r.status = "ok" THEN "cycles_to_time" ELSE "done"]
    /\ UNCHANGED <<mapperVars, conv, pkg, bad>>

\* back = cycles_to_time(cycles, unit, clock_period_ns)
CyclesToTime ==
    /\ tconv.pc = "cycles_to_time"
    /\ tconv' = [tconv EXCEPT
                    !.back = cycles_to_time(tconv.cycles.value, tconv.unit,
                                            tconv.clock_period_ns),
                    !.pc = "done"]
    /\ UNCHANGED <<mapperVars, conv, pkg, bad>>

\* PulseDuration_<unit>(value, width); a ValueError ends the caller
NewPulseDuration ==
    /\ tconv.pc = "new"
    /\ LET r == PulseDuration(tconv.value, tconv.width) IN
       tconv' = [tconv EXCEPT
                    !.cycles = IF r.status = "ok" THEN TimeNone ELSE r,
                    !.pc = IF r.status = "ok" THEN "to_cycles" ELSE "done"]
    /\ UNCHANGED <<mapperVars, conv, pkg, bad>>

\* cycles = duration.to_cycles(clock_period_ns, rounding)
PulseToCycles ==
    /\ tconv.pc = "to_cycles"
    /\ tconv' = [tconv EXCEPT
                    !.cycles = to_cycles(tconv.value, tconv.unit,
                                         tconv.clock_period_ns, tconv.rounding),
                    !.pc = "done"]
    /\ UNCHANGED <<mapperVars, conv, pkg, bad>>

NextTime == TimeToCycles \/ CyclesToTime \/ NewPulseDuration \/ PulseToCycles

SpecTime == InitTime /\ [][NextTime]_vars

\* value times the unit factor, and its exact quotient and remainder by the
\* clock period: duration_ns = q * clock_period_ns + r
DurationNs == MulBy(tconv.value, UnitFactor[tconv.unit])

Quotient == DivModBy(DurationNs, <<tconv.clock_period_ns>>)

\* time_to_cycles was called with a valid unit, or to_cycles was called
ToCyclesCalled ==
    \/ /\ tconv.fn = "time_to_cycles"
       /\ tconv.unit \in TimeUnits
       /\ tconv.cycles.status # "none"
    \/ /\ tconv.fn = "PulseDuration"
       /\ tconv.pc = "done"
       /\ tconv.cycles.error # "exceeds_max"

\* C16: for every non-negative value, unit and positive integer clock period
\* with value * factor evenly divisible by the clock period,
\* cycles_to_time(time_to_cycles(value, unit, clock, EXACT), unit, clock) = value.
C16_ExactRoundTrip ==
    ( /\ tconv.fn = "time_to_cycles"
      /\ tconv.pc = "done"
      /\ tconv.unit \in TimeUnits
      /\ tconv.rounding = "EXACT"
      /\ Quotient.r = 0 )
    => tconv.back = TimeValue(tconv.value)

\* C17: with duration_ns = value * unit factor, time_to_cycles and every
\* PulseDuration_*.to_cycles return duration_ns / clock_period_ns under EXACT
\* when that quotient is an integer and raise a rounding error otherwise,
\* return its ceiling under ROUND_UP and its floor under ROUND_DOWN, and reject
\* any other rounding mode.
C17_RoundingPolicy ==
    ToCyclesCalled =>
        IF tconv.rounding = "EXACT"
          THEN tconv.cycles = IF Quotient.r = 0
                                THEN TimeValue(Quotient.q)
                                ELSE TimeError("not_evenly_divisible")
        ELSE IF tconv.rounding = "ROUND_UP"
          THEN tconv.cycles = TimeValue(IF Quotient.r = 0 THEN Quotient.q
                                        ELSE AddOne(Quotient.q))
        ELSE IF tconv.rounding = "ROUND_DOWN"
          THEN tconv.cycles = TimeValue(Quotient.q)
        ELSE tconv.cycles = TimeError("invalid_rounding_mode")

\* C29: for every voltage type and every raw value in the accepted N-bit raw
\* range, raw_to_<type>(raw) lies within the catalog domain
\* [min_value, max_value], so <type>_to_raw accepts it.
C29_InverseStaysInDomain ==
    (RawToCalled /\ conv.back.status = "ok") =>
        /\ VoltageValueDomains[conv.type].min_value <= conv.back.value
        /\ conv.back.value <= VoltageValueDomains[conv.type].max_value
        /\ to_raw(conv.type, conv.back.value).status = "ok"

(***************************************************************************)
(* models.package and models.mapper.  A default value is None, a bool or a *)
(* Python int [neg, mag] (sign and magnitude); a register word is the set  *)
(* of its 1 bits.                                                          *)
(***************************************************************************)
PyInt(neg, mag) == [neg |-> neg, mag |-> mag]

PyOfInt(n) ==
    IF n < 0 THEN PyInt(TRUE, BigOfInt(-n)) ELSE PyInt(FALSE, BigOfInt(n))

\* the value of a Python int that fits a machine word
RECURSIVE BigToInt(_)
BigToInt(s) == IF s = << >> THEN 0 ELSE s[1] + Base * BigToInt(Tail(s))

PyToInt(x) == IF x.neg THEN -BigToInt(x.mag) ELSE BigToInt(x.mag)

\* a < b
PyLess(a, b) ==
    IF a.neg /\ ~b.neg THEN TRUE
    ELSE IF ~a.neg /\ b.neg THEN FALSE
    ELSE IF a.neg THEN BigLess(b.mag, a.mag)
    ELSE BigLess(a.mag, b.mag)

None == [kind |-> "None"]

BoolValue(b) == [kind |-> "bool", value |-> b]

IntValue(x) == [kind |-> "int", value |-> x]

\* TypeMetadata.min_value / max_value of a catalog entry (None for boolean)
min_value(datatype) ==
    IF datatype = "boolean" THEN None
    ELSE IF datatype \in VoltageTypes
      THEN IntValue(PyOfInt(VoltageValueDomains[datatype].min_value))
    ELSE IntValue(PyOfInt(0))

\* the durations' max_value literals are 2^bit_width - 1
max_value(datatype) ==
    IF datatype = "boolean" THEN None
    ELSE IF datatype \in VoltageTypes
      THEN IntValue(PyOfInt(VoltageValueDomains[datatype].max_value))
    ELSE IntValue(PyInt(FALSE, SubOne(Shl(<<1>>, TYPE_REGISTRY[datatype].bit_width))))

\* bit operations on Python ints look at this many low-order bits; a negative
\* int is in two's complement with its sign bit repeated to the top
WordWindow == 64

\* the 1 bits of x
BitsOf(x) ==
    IF x.neg
      THEN { i \in 0..(WordWindow - 1) : ~IsOdd(Shr(SubOne(x.mag), i)) }
      ELSE { i \in 0..(WordWindow - 1) : IsOdd(Shr(x.mag, i)) }

\* the raw value goes into the word unmasked
and_mask_none(bits, width) == bits

\* "mask = (1 << bit_width) - 1; raw_value &= mask"
and_mask(bits, width) == bits \cap (0..(width - 1))

\* "raw_value << lsb"
shift_left(bits, lsb) == { i + lsb : i \in bits }

DataTypeSpec(name, datatype, default_value) ==
    [name |-> name, datatype |-> datatype, default_value |-> default_value]

\* DataTypeSpec.validate_default_value: TRUE iff it does not raise
validate_default_value(dt) ==
    IF dt.default_value = None THEN TRUE
    ELSE IF dt.datatype = "boolean" THEN dt.default_value.kind = "bool"
    ELSE /\ dt.default_value.kind = "int"
         /\ ~PyLess(dt.default_value.value, min_value(dt.datatype).value)
         /\ ~PyLess(max_value(dt.datatype).value, dt.default_value.value)

\* [(r.name, r.datatype) for r in self.registers]
ItemsOf(registers) ==
    [i \in 1..Len(registers) |->
        [name |-> registers[i].name, datatype |-> registers[i].datatype]]

\* BasicAppsRegPackage.validate_unique_names: TRUE iff it does not raise
validate_unique_names(datatypes) == ~HasDuplicates(NamesOf(datatypes))

\* BasicAppsRegPackage.validate_total_bits: TRUE iff it does not raise
validate_total_bits(datatypes) == total_bits(ItemsOf(datatypes)) <= 384

\* BADRegisterMapper.to_register_mappings
to_register_mappings(registers, strat) == map(ItemsOf(registers), strat)

\* BasicAppsRegPackage._convert_to_raw, for a validated default value
convert_to_raw(dt_spec) ==
    IF dt_spec.default_value = None THEN PyOfInt(0)
    ELSE IF dt_spec.datatype = "boolean"
      THEN PyOfInt(IF dt_spec.default_value.value THEN 1 ELSE 0)
    ELSE IF dt_spec.datatype \in VoltageTypes
      THEN PyOfInt(to_raw(dt_spec.datatype,
                          PyToInt(dt_spec.default_value.value)).value)
    ELSE dt_spec.default_value.value

\* "next(dt for dt in self.datatypes if dt.name == mapping.name)"
SpecNamed(datatypes, name) ==
    datatypes[CHOOSE i \in 1..Len(datatypes) :
                /\ datatypes[i].name = name
                /\ \A j \in 1..(i - 1) : datatypes[j].name # name]

\* the loop of to_control_registers over the mappings, result a dict
\* cr_number -> word
RECURSIVE ControlRegistersLoop(_, _, _, _)
ControlRegistersLoop(datatypes, mappings, i, regs) ==
    IF i > Len(mappings) THEN regs
    ELSE
        LET mapping == mappings[i]
            dt_spec == SpecNamed(datatypes, mapping.name)
        IN  IF dt_spec.default_value = None
              THEN ControlRegistersLoop(datatypes, mappings, i + 1, regs)
              ELSE
                LET raw_value == BitsOf(convert_to_raw(dt_spec))
                    cr   == mapping.cr_number
                    init == IF cr \in DOMAIN regs THEN regs ELSE regs @@ (cr :> {})
                    msb  == mapping.bit_slice[1]
                    lsb  == mapping.bit_slice[2]
                    bw   == msb - lsb + 1
                    word == init[cr] \cup shift_left(and_mask(raw_value, bw), lsb)
                IN  ControlRegistersLoop(datatypes, mappings, i + 1,
                                         [init EXCEPT ![cr] = word])

\* _mapping_cache: None, or the list object generate_mapping stored; id tells
\* list objects apart
NoCache == [status |-> "None", id |-> 0, mappings |-> << >>]

Cached(id, mappings) == [status |-> "ok", id |-> id, mappings |-> mappings]

\* what the last call on the package returned or raised
Outcome(fn, status, error, id, mappings, regs) ==
    [fn |-> fn, status |-> status, error |-> error, id |-> id,
     mappings |-> mappings, regs |-> regs]

NoCall == Outcome("none", "none", "none", 0, << >>, << >>)

\* the cache is looked at but never found filled
IsCached_never(cache) == FALSE

\* "if self._mapping_cache is None" is false
IsCached(cache) == cache.status = "ok"

\* the body of "if self._mapping_cache is None:" of generate_mapping, r what
\* mapper.to_register_mappings() returned or raised: the cache, the count of
\* lists stored and of allocator runs afterwards, and what the call returns or
\* raises
store_mapping(p, r) ==
    IF r.status = "ok"
      THEN [cache |-> Cached(p.computed + 1, r.mappings),
            computed |-> p.computed + 1, runs |-> p.runs + 1,
            out |-> Outcome("generate_mapping", "ok", "none", p.computed + 1,
                            r.mappings, << >>)]
      ELSE [cache |-> p.cache, computed |-> p.computed, runs |-> p.runs + 1,
            out |-> Outcome("generate_mapping", "error", r.error, 0,
                            << >>, << >>)]

\* BasicAppsRegPackage.generate_mapping on package p
generate_mapping(p) ==
    IF IsCached(p.cache)
      THEN [cache |-> p.cache, computed |-> p.computed, runs |-> p.runs,
            out |-> Outcome("generate_mapping", "ok", "none", p.cache.id,
                            p.cache.mappings, << >>)]
      ELSE store_mapping(p, to_register_mappings(p.datatypes,
                                                 p.mapping_strategy))

\* to_control_registers after "mappings = self.generate_mapping()", g what
\* that call did: next() raises StopIteration when no datatype has a
\* mapping's name
pack_defaults(p, g) ==
    IF g.out.status = "error"
      THEN [g EXCEPT !.out.fn = "to_control_registers"]
    ELSE IF \E i \in 1..Len(g.out.mappings) :
               \A j \in 1..Len(p.datatypes) :
                   p.datatypes[j].name # g.out.mappings[i].name
      THEN [g EXCEPT !.out = Outcome("to_control_registers", "error",
                                     "StopIteration", 0, << >>, << >>)]
    ELSE [g EXCEPT !.out =
             Outcome("to_control_registers", "ok", "none", 0, << >>,
                     ControlRegistersLoop(p.datatypes, g.out.mappings, 1, << >>))]

\* BasicAppsRegPackage.to_control_registers on package p
to_control_registers(p) == pack_defaults(p, generate_mapping(p))

\* Inputs: packages that pass every validator
PkgMaxFields == 13

PkgMaxPattern == 2

MaxCalls == 2

PkgFieldTypes ==
    {"boolean", "voltage_output_05v_s16", "pulse_duration_us_u24",
     "pulse_duration_ns_u32"}

PkgPatterns == UNION { [1..k -> PkgFieldTypes] : k \in 1..PkgMaxPattern }

DefaultSchemes == {"none", "min", "max", "alternate"}

DefaultAt(datatype, i, scheme) ==
    IF scheme = "none" \/ (scheme = "alternate" /\ i % 2 = 1) THEN None
    ELSE IF datatype = "boolean" THEN BoolValue(scheme = "max")
    ELSE IF scheme = "max" THEN max_value(datatype)
    ELSE min_value(datatype)

MakeDatatypes(pattern, n, scheme) ==
    [i \in 1..n |->
        LET datatype == pattern[((i - 1) % Len(pattern)) + 1]
        IN  DataTypeSpec(i, datatype, DefaultAt(datatype, i, scheme))]

\* the model validators of BasicAppsRegPackage and DataTypeSpec pass
ValidPackage(datatypes, strat) ==
    /\ Len(datatypes) >= 1
    /\ \A i \in 1..Len(datatypes) : validate_default_value(datatypes[i])
    /\ validate_unique_names(datatypes)
    /\ validate_total_bits(datatypes)
    /\ strat \in Strategies

\* BasicAppsRegPackage(datatypes=..., mapping_strategy=...)
BasicAppsRegPackage(datatypes, strat) ==
    [pc |-> "ready", datatypes |-> datatypes, mapping_strategy |-> strat,
     cache |-> NoCache, computed |-> 0, runs |-> 0, returned |-> {},
     calls |-> 0, edits |-> 0, last |-> NoCall]

InitPackage ==
    /\ MapperIdle
    /\ conv = ConvIdle
    /\ tconv = TimeIdle
    /\ bad = BadIdle
    /\ \E pattern \in PkgPatterns, n \in 1..PkgMaxFields,
          scheme \in DefaultSchemes, strat \in Strategies :
          /\ ValidPackage(MakeDatatypes(pattern, n, scheme), strat)
          /\ pkg = BasicAppsRegPackage(MakeDatatypes(pattern, n, scheme), strat)

\* package.generate_mapping()
GenerateMapping ==
    /\ pkg.pc = "ready"
    /\ pkg.calls < MaxCalls
    /\ \E g \in {generate_mapping(pkg)} :
       pkg' = [pkg EXCEPT !.cache = g.cache, !.computed = g.computed,
                          !.runs = g.runs, !.last = g.out, !.calls = @ + 1,
                          !.returned = IF g.out.status = "ok"
                                         THEN @ \cup {g.out.id} ELSE @]
    /\ UNCHANGED <<mapperVars, conv, tconv, bad>>

\* package.to_control_registers()
ToControlRegisters ==
    /\ pkg.pc = "ready"
    /\ pkg.calls < MaxCalls
    /\ \E g \in {to_control_registers(pkg)} :
       pkg' = [pkg EXCEPT !.cache = g.cache, !.computed = g.computed,
                          !.runs = g.runs, !.last = g.out, !.calls = @ + 1]
    /\ UNCHANGED <<mapperVars, conv, tconv, bad>>

NextPackage == GenerateMapping \/ ToControlRegisters

SpecPackage == InitPackage /\ [][NextPackage]_vars

\* Edits of a package between calls. The model has no validate_assignment and
\* is not frozen, so an assignment or a list mutation runs no validator and
\* leaves _mapping_cache as it is.
EditMaxFields == 3

MaxEdits == 1

InitPackageEdit ==
    /\ MapperIdle
    /\ conv = ConvIdle
    /\ tconv = TimeIdle
    /\ bad = BadIdle
    /\ \E pattern \in PkgPatterns, n \in 1..EditMaxFields,
          scheme \in DefaultSchemes, strat \in Strategies :
          /\ ValidPackage(MakeDatatypes(pattern, n, scheme), strat)
          /\ pkg = BasicAppsRegPackage(MakeDatatypes(pattern, n, scheme), strat)

\* package.mapping_strategy = strat
SetMappingStrategy ==
    /\ pkg.pc = "ready"
    /\ pkg.edits < MaxEdits
    /\ \E strat \in Strategies \ {pkg.mapping_strategy} :
          pkg' = [pkg EXCEPT !.mapping_strategy = strat, !.edits = @ + 1]
    /\ UNCHANGED <<mapperVars, conv, tconv, bad>>

\* package.datatypes.pop(), at least one datatype staying
PopDatatype ==
    /\ pkg.pc = "ready"
    /\ pkg.edits < MaxEdits
    /\ Len(pkg.datatypes) > 1
    /\ pkg' = [pkg EXCEPT !.datatypes = SubSeq(@, 1, Len(@) - 1),
                          !.edits = @ + 1]
    /\ UNCHANGED <<mapperVars, conv, tconv, bad>>

NextPackageEdit ==
    \/ GenerateMapping
    \/ ToControlRegisters
    \/ SetMappingStrategy
    \/ PopDatatype

SpecPackageEdit == InitPackageEdit /\ [][NextPackageEdit]_vars

\* ---- models/mapper.py and models/register.py: the legacy AppRegister list ----

\* "Map BAD type to legacy RegisterType (approximate)"
reg_type(datatype) ==
    IF datatype = "boolean" THEN "BUTTON"
    ELSE IF TYPE_REGISTRY[datatype].bit_width = 8 THEN "COUNTER_8BIT"
    ELSE IF TYPE_REGISTRY[datatype].bit_width = 16 THEN "COUNTER_16BIT"
    ELSE "COUNTER_16BIT"

\* lo <= v <= hi, v a Python int
Between(lo, v, hi) == ~PyLess(v, PyOfInt(lo)) /\ ~PyLess(PyOfInt(hi), v)

\* AppRegister.cr_number: Field(ge=6, le=15) and validate_cr_number
validate_cr_number(v) == 6 <= v /\ v <= 15

\* AppRegister.validate_default_value / validate_min_value /
\* validate_max_value, which test a value the same way: TRUE iff no raise
validate_value(rtype, v) ==
    IF v = None THEN TRUE
    ELSE IF rtype = "COUNTER_8BIT" THEN Between(0, v.value, 255)
    ELSE IF rtype = "COUNTER_16BIT" THEN Between(0, v.value, 65535)
    ELSE IF rtype = "PERCENT" THEN Between(0, v.value, 100)
    ELSE Between(0, v.value, 1)

\* "config.default_value if isinstance(config.default_value, int) else 0";
\* a bool is an int, and the int field takes True as 1
legacy_default(default_value) ==
    IF default_value = None THEN IntValue(PyOfInt(0))
    ELSE IF default_value.kind = "bool"
      THEN IntValue(PyOfInt(IF default_value.value THEN 1 ELSE 0))
    ELSE default_value

\* AppRegister(name=..., reg_type=..., cr_number=..., default_value=...,
\* min_value=..., max_value=...): the object, or a ValidationError
AppRegister(name, rtype, cr_number, default_value, lo, hi) ==
    [status |-> IF /\ validate_cr_number(cr_number)
                   /\ validate_value(rtype, default_value)
                   /\ validate_value(rtype, lo)
                   /\ validate_value(rtype, hi)
                  THEN "ok" ELSE "error",
     name |-> name, reg_type |-> rtype, cr_number |-> cr_number]

\* the loop of to_app_registers over the mappings
app_registers(registers, mappings) ==
    [i \in 1..Len(mappings) |->
        LET mapping == mappings[i] IN
        AppRegister(mapping.name, reg_type(mapping.datatype), mapping.cr_number,
                    legacy_default(SpecNamed(registers, mapping.name).default_value),
                    min_value(mapping.datatype), max_value(mapping.datatype))]

\* to_app_registers after "mappings = self.to_register_mappings()", r what
\* that call returned or raised
legacy_registers(registers, r) ==
    IF r.status # "ok"
      THEN [status |-> "error", error |-> r.error, app_registers |-> << >>]
    ELSE IF \E i \in 1..Len(r.mappings) :
                app_registers(registers, r.mappings)[i].status = "error"
      THEN [status |-> "error", error |-> "ValidationError",
            app_registers |-> << >>]
    ELSE [status |-> "ok", error |-> "none",
          app_registers |-> app_registers(registers, r.mappings)]

\* BADRegisterMapper.to_app_registers
to_app_registers(registers, strat) ==
    legacy_registers(registers, to_register_mappings(registers, strat))

\* Inputs: register lists that pass every validator of BADRegisterConfig and
\* BADRegisterMapper (which has no total-bits validator)
BadMaxFields == 21

BadMaxPattern == 2

BadFieldTypes ==
    {"boolean", "pulse_duration_ns_u8", "pulse_duration_ms_u16",
     "voltage_input_20v_s8", "pulse_duration_us_u24"}

BadPatterns == UNION { [1..k -> BadFieldTypes] : k \in 1..BadMaxPattern }

ValidMapper(registers, strat) ==
    /\ Len(registers) >= 1
    /\ \A i \in 1..Len(registers) : validate_default_value(registers[i])
    /\ validate_unique_names(registers)
    /\ strat \in Strategies

\* BADRegisterMapper(registers=..., strategy=...)
BADRegisterMapper(registers, strat) ==
    [pc |-> "ready", registers |-> registers, strategy |-> strat,
     last |-> [status |-> "none", error |-> "none", app_registers |-> << >>]]

InitBAD ==
    /\ MapperIdle
    /\ conv = ConvIdle
    /\ tconv = TimeIdle
    /\ pkg = PkgIdle
    /\ \E pattern \in BadPatterns, n \in 1..BadMaxFields,
          scheme \in DefaultSchemes, strat \in Strategies :
          /\ ValidMapper(MakeDatatypes(pattern, n, scheme), strat)
          /\ bad = BADRegisterMapper(MakeDatatypes(pattern, n, scheme), strat)

\* mapper.to_app_registers()
ToAppRegisters ==
    /\ bad.pc = "ready"
    /\ bad' = [bad EXCEPT !.pc = "done",
                          !.last = to_app_registers(bad.registers, bad.strategy)]
    /\ UNCHANGED <<mapperVars, conv, tconv, pkg>>

NextBAD == ToAppRegisters

SpecBAD == InitBAD /\ [][NextBAD]_vars

\* the last call on the package was to_control_registers and it returned
ControlRegistersReturned ==
    /\ pkg.pc = "ready"
    /\ pkg.last.fn = "to_control_registers"
    /\ pkg.last.status = "ok"

\* C21: on every valid package to_control_registers returns a dictionary
\* whose keys are register indices in 6..17 and whose values are integers in
\* 0..2^32 - 1 (a word is the set of its 1 bits, so all of them lie in 0..31)
C21_ControlRegistersInRange ==
    (pkg.pc = "ready" /\ pkg.last.fn = "to_control_registers") =>
        /\ pkg.last.status = "ok"
        /\ DOMAIN pkg.last.regs \subseteq 6..17
        /\ \A cr \in DOMAIN pkg.last.regs : pkg.last.regs[cr] \subseteq 0..31

\* bit b of (raw mod 2^width), raw a Python int: two's complement for a
\* negative raw value
MaskedBit(raw, width, b) ==
    /\ b \in 0..(width - 1)
    /\ IF raw.neg
         THEN ((PyToInt(raw) % Pow2(width)) \div Pow2(b)) % 2 = 1
         ELSE IsOdd(Shr(raw.mag, b))

\* the mappings of the fields that have a default value
Defaulted(datatypes, mappings) ==
    { i \in 1..Len(mappings) :
        SpecNamed(datatypes, mappings[i].name).default_value # None }

C30_CacheCoherent ==
    [][ (pkg.pc = "ready" /\ pkg'.calls = pkg.calls + 1
            /\ pkg'.last.fn = "generate_mapping") =>
          LET r == map(ItemsOf(pkg.datatypes), pkg.mapping_strategy)
          IN  /\ pkg'.last.status = r.status
              /\ r.status = "ok" => pkg'.last.mappings = r.mappings
      ]_vars

\* C22: on every valid BADRegisterMapper to_app_registers succeeds and
\* returns one AppRegister per register config, with the config's name and
\* the register index of its mapping; booleans are BUTTON, 8-bit types
\* COUNTER_8BIT and all other widths COUNTER_16BIT
C22_AppRegistersSucceed ==
    bad.pc = "done" =>
        LET mappings == map(ItemsOf(bad.registers), bad.strategy).mappings
            regs     == bad.last.app_registers
        IN  /\ bad.last.status = "ok"
            /\ Len(regs) = Len(bad.registers)
            /\ \A i \in 1..Len(bad.registers) :
                 \E j \in 1..Len(regs) :
                    /\ regs[j].name = bad.registers[i].name
                    /\ \A k \in 1..Len(regs) : regs[k].name = regs[j].name => k = j
                    /\ \E m \in 1..Len(mappings) :
                          /\ mappings[m].name = regs[j].name
                          /\ mappings[m].cr_number = regs[j].cr_number
                    /\ regs[j].reg_type =
                          IF bad.registers[i].datatype = "boolean" THEN "BUTTON"
                          ELSE IF TYPE_REGISTRY[bad.registers[i].datatype].bit_width = 8
                            THEN "COUNTER_8BIT"
                          ELSE "COUNTER_16BIT"

====
